---- MODULE Spec2Model ----
(***************************************************************************)
(* Model of tab 1 of app.py, the post-HSCT hemorrhagic cystitis PRP        *)
(* protocol form: the widgets' values, the script re-run that every        *)
(* widget change causes, and the handler of the "Generate Comprehensive    *)
(* PRP Protocol" button (app.py:118-222).                                  *)
(*                                                                         *)
(* Numbers.  wall_thick and hematoma_size are floats entered with one      *)
(* decimal; they are held in tenths (5.0 mm is 50, 2.0 cm is 20) and the   *)
(* thresholds likewise.  The blood volumes are floats; they are held as    *)
(* exact fractions [n, d] in lowest terms (the operands are integers times *)
(* 0.5 or 2.5, which are exact in binary floating point, so the only       *)
(* rounding is the last bit of the quotient).                              *)
(***************************************************************************)
EXTENDS Integers, Sequences, FiniteSets, TLC

VARIABLES grade, bladder_vol, wall_thick, hematoma_size, cbc_plt,
          treatment_freq, response_status, target_plt, glue_type,
          target_vol, glue_params, outcome, rec, prev

inputs == <<grade, bladder_vol, wall_thick, hematoma_size, cbc_plt,
            treatment_freq, response_status, target_plt, glue_type,
            target_vol, glue_params>>

vars == <<grade, bladder_vol, wall_thick, hematoma_size, cbc_plt,
          treatment_freq, response_status, target_plt, glue_type,
          target_vol, glue_params, outcome, rec, prev>>

(***************************************************************************)
(* Bounds of the explored input values                                     *)
(***************************************************************************)
MaxHematoma == 50
MaxWallThick == 70
MaxCbc == 10000
MaxBladderVol == 200
MaxTargetPlt == 2000

(***************************************************************************)
(* Widget declarations (options, minimum, default)                         *)
(***************************************************************************)
Grades == {"Grade 1", "Grade 2", "Grade 3", "Grade 4"}
Frequencies == {"Weekly", "Biweekly", "Monthly"}
Responses == {"Naive", "Partial Response", "Recurrent"}
GlueTypes == {"Standard PRP", "Fibrin Glue (Cryo-based)",
              "PRF Glue (Combined)", "PRF Gel"}
CalciumRatios == {"1:5", "1:10", "1:20"}

MinCbc == 50
MinTargetPlt == 1000
MinTargetVol == 10
MinCryoVol == 10
MaxCryoVol == 50
MinIncubation == 5
MaxIncubation == 60
MinActivationTemp == 24
MaxActivationTemp == 37

HematomaValues == {0, 20, 21, 40, MaxHematoma}
WallThickValues == {50, 60, MaxWallThick}
CbcValues == {MinCbc, 200, MaxCbc}
BladderVolValues == {0, 60, 150, MaxBladderVol}
TargetPltValues == {MinTargetPlt, 1500, MaxTargetPlt}
TargetVolValues == {MinTargetVol, 30}
CryoVolValues == {MinCryoVol, 30, MaxCryoVol}
IncubationValues == {MinIncubation, 30, MaxIncubation}
ActivationTempValues == {MinActivationTemp, MaxActivationTemp}

\* the cbc values a caller that bypasses the form can pass to the handler
DirectCbcValues == {-MinCbc, 0, 200}

Min(a, b) == IF a < b THEN a ELSE b

\* number_input "Target PRP Concentration": value=
TargetPltDefault(g) == IF g \in {"Grade 3", "Grade 4"} THEN 1500 ELSE 1000

\* number_input "Target Instillation Volume": value=, int() truncating
TargetVolDefault(bv) == IF bv > 0 THEN Min(30, (bv * 15) \div 100) ELSE 30

\* selectbox "Calcium Gluconate Ratio": index= into ["1:5", "1:10", "1:20"]
CalciumRatioDefault(gt) == IF gt = "PRF Gel" THEN "1:5" ELSE "1:10"

\* number_input "Activation Temperature": value=
ActivationTempDefault(gt) ==
    IF gt \in {"PRF Glue (Combined)", "PRF Gel"} THEN 37 ELSE 24

CryoVolDefault == 30
IncubationDefault == 30

\* the keys the script puts in glue_params for a preparation
GlueParamKeys(gt) ==
    IF gt = "Standard PRP" THEN {}
    ELSE {"calcium_ratio", "activation_temp"}
         \cup (IF gt = "Fibrin Glue (Cryo-based)" THEN {"cryo_vol"} ELSE {})
         \cup (IF gt \in {"PRF Glue (Combined)", "PRF Gel"}
               THEN {"incubation_time"} ELSE {})

GlueParamDefault(gt, k) ==
    CASE k = "cryo_vol" -> CryoVolDefault
      [] k = "calcium_ratio" -> CalciumRatioDefault(gt)
      [] k = "incubation_time" -> IncubationDefault
      [] k = "activation_temp" -> ActivationTempDefault(gt)

\* glue_params after a run of the script with preparation gt, when the run
\* before had preparation oldGt and collected old: a widget that was drawn
\* in the run before with the same declaration keeps its value, any other
\* starts from its default
CollectGlueParams(gt, oldGt, old) ==
    [k \in GlueParamKeys(gt) |->
        IF k \in DOMAIN old /\ GlueParamDefault(oldGt, k) = GlueParamDefault(gt, k)
        THEN old[k]
        ELSE GlueParamDefault(gt, k)]

EmptyDict == [k \in {} |-> 0]

\* dict.get(k, default)
Get(d, k, default) == IF k \in DOMAIN d THEN d[k] ELSE default

(***************************************************************************)
(* Float arithmetic of the blood volumes, as exact fractions               *)
(***************************************************************************)
Abs(x) == IF x < 0 THEN -x ELSE x

RECURSIVE GCD(_, _)
GCD(a, b) == IF b = 0 THEN a ELSE GCD(b, a % b)

Frac(n, d) ==
    LET g == GCD(Abs(n), Abs(d))
        s == IF d < 0 THEN -1 ELSE 1
    IN [n |-> (s * n) \div g, d |-> (s * d) \div g]

FromInt(i) == [n |-> i, d |-> 1]
FracMul(x, y) == Frac(x.n * y.n, x.d * y.d)
FracDiv(x, y) == Frac(x.n * y.d, x.d * y.n)
FracLess(x, y) == x.n * y.d < y.n * x.d
\* Python's max(a, b): b only when it is strictly greater
FracMax(a, b) == IF FracLess(a, b) THEN b ELSE a

WholeBloodYield == Frac(1, 2)
ApheresisYield == Frac(5, 2)
MinWholeBlood == 20
MinApheresis == 50

(***************************************************************************)
(* The handler of the button                                               *)
(***************************************************************************)
\* a dict without one of the grades the selectbox offers
base_sessions_NoGrade4 ==
    ("Grade 1" :> 2) @@ ("Grade 2" :> 3) @@ ("Grade 3" :> 4)

base_sessions ==
    ("Grade 1" :> 2) @@ ("Grade 2" :> 3) @@ ("Grade 3" :> 4) @@ ("Grade 4" :> 5)

HematomaThreshold1 == 20
HematomaThreshold2 == 40
WallThickThreshold == 60

\* the thresholds taken as inclusive
Sessions_Inclusive(g, hematoma, wall, response) ==
    base_sessions[g]
    + (IF hematoma >= HematomaThreshold1 THEN 1 ELSE 0)
    + (IF hematoma >= HematomaThreshold2 THEN 1 ELSE 0)
    + (IF wall >= WallThickThreshold THEN 1 ELSE 0)
    + (IF response = "Partial Response" THEN 1
       ELSE IF response = "Recurrent" THEN 2 ELSE 0)

\* sessions after the adjustments
Sessions(g, hematoma, wall, response) ==
    LET s0 == base_sessions[g]
        s1 == IF hematoma > HematomaThreshold1 THEN s0 + 1 ELSE s0
        s2 == IF hematoma > HematomaThreshold2 THEN s1 + 1 ELSE s1
        s3 == IF wall > WallThickThreshold THEN s2 + 1 ELSE s2
        s4 == IF response = "Partial Response" THEN s3 + 1
              ELSE IF response = "Recurrent" THEN s3 + 2
              ELSE s3
    IN s4

\* the two response increments exchanged
SessionsOf_ResponseSwapped(in) ==
    Sessions(in.grade, in.hematoma_size, in.wall_thick, "Naive")
    + (IF in.response_status = "Partial Response" THEN 2
       ELSE IF in.response_status = "Recurrent" THEN 1 ELSE 0)

\* the interval label taken into the count
SessionsOf_ByFrequency(in) ==
    Sessions(in.grade, in.hematoma_size, in.wall_thick, in.response_status)
    + (IF in.treatment_freq = "Weekly" THEN 1 ELSE 0)

\* the count kept from the protocol rendered before and added to
SessionsOf_Accumulating(in) ==
    Sessions(in.grade, in.hematoma_size, in.wall_thick, in.response_status)
    + (IF outcome = "ok" THEN 1 ELSE 0)

\* the session calculation on the handler's input
SessionsOf(in) ==
    Sessions(in.grade, in.hematoma_size, in.wall_thick, in.response_status)

\* the whole-blood draw without its floor
RequiredBloodMl_NoFloor(vol, plt, cbc) ==
    IF cbc > 0
    THEN FracDiv(FromInt(vol * plt), FracMul(FromInt(cbc), WholeBloodYield))
    ELSE FromInt(0)

RequiredBloodMl(vol, plt, cbc) ==
    LET q == IF cbc > 0
             THEN FracDiv(FromInt(vol * plt), FracMul(FromInt(cbc), WholeBloodYield))
             ELSE FromInt(0)
    IN FracMax(FromInt(MinWholeBlood), q)

ApheresisVolMl(vol, plt, cbc) ==
    LET q == IF cbc > 0
             THEN FracDiv(FromInt(vol * plt), FracMul(FromInt(cbc), ApheresisYield))
             ELSE FromInt(0)
    IN FracMax(FromInt(MinApheresis), q)

PlateletDose(vol, plt) == vol * plt

\* the follow-up floor one higher
UltrasoundAfter_Floor3(sessions) == IF sessions \div 2 > 3 THEN sessions \div 2 ELSE 3

UltrasoundAfter(sessions) == IF sessions \div 2 > 2 THEN sessions \div 2 ELSE 2

\* the steps, each the fragments of its f-string
FibrinGlueSteps(gp) ==
    << <<"1", ". Prepare ", ToString(Get(gp, "cryo_vol", 30)), "ml cryoprecipitate">>,
       <<"2", ". Add calcium gluconate at ", Get(gp, "calcium_ratio", "1:5"), " ratio">>,
       <<"3", ". Incubate at ", ToString(Get(gp, "activation_temp", 37)), "C for 30min">> >>

PrfGlueSteps(gp) ==
    << <<"1", ". Prepare both platelet concentrate and cryoprecipitate">>,
       <<"2", ". Mix components at 2:1 ratio (PRP:Cryo)">>,
       <<"3", ". Add calcium gluconate at ", Get(gp, "calcium_ratio", "1:5"), " ratio">>,
       <<"4", ". Incubate at ", ToString(Get(gp, "activation_temp", 37)), "C for ",
         ToString(Get(gp, "incubation_time", 30)), "min">> >>

\* the gel without its closing spin
PrfGelSteps_NoSpin(gp) ==
    << <<"1", ". Prepare high-concentration PRP (>=2000x10^3/uL)">>,
       <<"2", ". Add calcium gluconate at ", Get(gp, "calcium_ratio", "1:5"), " ratio">>,
       <<"3", ". Activate at ", ToString(Get(gp, "activation_temp", 37)), "C for ",
         ToString(Get(gp, "incubation_time", 30)), "min">> >>

PrfGelSteps(gp) ==
    << <<"1", ". Prepare high-concentration PRP (>=2000x10^3/uL)">>,
       <<"2", ". Add calcium gluconate at ", Get(gp, "calcium_ratio", "1:5"), " ratio">>,
       <<"3", ". Activate at ", ToString(Get(gp, "activation_temp", 37)), "C for ",
         ToString(Get(gp, "incubation_time", 30)), "min">>,
       <<"4", ". Centrifuge at 200g for 5min">> >>

\* glue_prep_steps: empty, then the branch of the preparation
GluePrepSteps(gt, gp) ==
    IF gt = "Fibrin Glue (Cryo-based)" THEN FibrinGlueSteps(gp)
    ELSE IF gt = "PRF Glue (Combined)" THEN PrfGlueSteps(gp)
    ELSE IF gt = "PRF Gel" THEN PrfGelSteps(gp)
    ELSE << >>

NoRec == [sessions |-> 0, interval |-> "", required_blood_ml |-> FromInt(0),
          apheresis_vol_ml |-> FromInt(0), dose |-> 0, followup |-> 0,
          steps |-> << >>]

\* the try block: what is rendered, or the except branch
GenerateProtocol(in) ==
    IF in.grade \notin DOMAIN base_sessions
    THEN [outcome |-> "error", rec |-> NoRec]
    ELSE [outcome |-> "ok",
          rec |-> [sessions |-> SessionsOf(in),
                   interval |-> in.treatment_freq,
                   required_blood_ml |-> RequiredBloodMl(in.target_vol, in.target_plt,
                                                         in.cbc_plt),
                   apheresis_vol_ml |-> ApheresisVolMl(in.target_vol, in.target_plt,
                                                       in.cbc_plt),
                   dose |-> PlateletDose(in.target_vol, in.target_plt),
                   followup |-> UltrasoundAfter(SessionsOf(in)),
                   steps |-> IF in.glue_type # "Standard PRP"
                             THEN GluePrepSteps(in.glue_type, in.glue_params)
                             ELSE << >>]]

Input ==
    [grade |-> grade, bladder_vol |-> bladder_vol, wall_thick |-> wall_thick,
     hematoma_size |-> hematoma_size, cbc_plt |-> cbc_plt,
     treatment_freq |-> treatment_freq, response_status |-> response_status,
     target_plt |-> target_plt, glue_type |-> glue_type,
     target_vol |-> target_vol, glue_params |-> glue_params]

(***************************************************************************)
(* State machine                                                           *)
(***************************************************************************)
NoValue == 0

Init ==
    /\ grade = "Grade 1"
    /\ bladder_vol = 150
    /\ wall_thick = 50
    /\ hematoma_size = 0
    /\ cbc_plt = 200
    /\ treatment_freq = "Biweekly"
    /\ response_status = "Naive"
    /\ target_plt = TargetPltDefault("Grade 1")
    /\ glue_type = "Standard PRP"
    /\ target_vol = TargetVolDefault(150)
    /\ glue_params = EmptyDict
    /\ outcome = "idle"
    /\ rec = NoRec
    /\ prev = << >>

\* One run of the script with the button not pressed, after a widget
\* changed: g, bv, gt are the values of the grade, bladder volume and
\* preparation widgets in this run; plt, vol, gp the values the dependent
\* widgets hold.  A widget whose value= changed is a new widget and starts
\* from its default; a default below min_value raises in number_input
\* (app.py:80), which ends the run before the parameters and the button.
Rerun(g, bv, gt, plt, vol, gp) ==
    LET volDef == TargetVolDefault(bv)
        aborted == volDef < MinTargetVol
    IN /\ grade' = g
       /\ bladder_vol' = bv
       /\ glue_type' = gt
       /\ target_plt' = IF TargetPltDefault(g) = TargetPltDefault(grade)
                        THEN plt ELSE TargetPltDefault(g)
       /\ target_vol' = IF aborted THEN NoValue
                        ELSE IF volDef = TargetVolDefault(bladder_vol)
                             THEN vol ELSE volDef
       /\ glue_params' = IF aborted THEN EmptyDict
                         ELSE CollectGlueParams(gt, glue_type, gp)
       /\ outcome' = IF aborted THEN "aborted" ELSE "idle"
       /\ rec' = NoRec
       /\ prev' = prev

SetGrade ==
    \E g \in Grades \ {grade} :
        /\ Rerun(g, bladder_vol, glue_type, target_plt, target_vol, glue_params)
        /\ UNCHANGED <<wall_thick, hematoma_size, cbc_plt, treatment_freq,
                       response_status>>

SetBladderVol ==
    \E bv \in BladderVolValues \ {bladder_vol} :
        /\ Rerun(grade, bv, glue_type, target_plt, target_vol, glue_params)
        /\ UNCHANGED <<wall_thick, hematoma_size, cbc_plt, treatment_freq,
                       response_status>>

SetWallThick ==
    \E w \in WallThickValues \ {wall_thick} :
        /\ wall_thick' = w
        /\ Rerun(grade, bladder_vol, glue_type, target_plt, target_vol, glue_params)
        /\ UNCHANGED <<hematoma_size, cbc_plt, treatment_freq, response_status>>

SetHematoma ==
    \E h \in HematomaValues \ {hematoma_size} :
        /\ hematoma_size' = h
        /\ Rerun(grade, bladder_vol, glue_type, target_plt, target_vol, glue_params)
        /\ UNCHANGED <<wall_thick, cbc_plt, treatment_freq, response_status>>

SetCbc ==
    \E c \in CbcValues \ {cbc_plt} :
        /\ cbc_plt' = c
        /\ Rerun(grade, bladder_vol, glue_type, target_plt, target_vol, glue_params)
        /\ UNCHANGED <<wall_thick, hematoma_size, treatment_freq, response_status>>

SetTreatmentFreq ==
    \E f \in Frequencies \ {treatment_freq} :
        /\ treatment_freq' = f
        /\ Rerun(grade, bladder_vol, glue_type, target_plt, target_vol, glue_params)
        /\ UNCHANGED <<wall_thick, hematoma_size, cbc_plt, response_status>>

SetResponse ==
    \E r \in Responses \ {response_status} :
        /\ response_status' = r
        /\ Rerun(grade, bladder_vol, glue_type, target_plt, target_vol, glue_params)
        /\ UNCHANGED <<wall_thick, hematoma_size, cbc_plt, treatment_freq>>

SetTargetPlt ==
    \E p \in TargetPltValues \ {target_plt} :
        /\ Rerun(grade, bladder_vol, glue_type, p, target_vol, glue_params)
        /\ UNCHANGED <<wall_thick, hematoma_size, cbc_plt, treatment_freq,
                       response_status>>

SetGlueType ==
    \E gt \in GlueTypes \ {glue_type} :
        /\ Rerun(grade, bladder_vol, gt, target_plt, target_vol, glue_params)
        /\ UNCHANGED <<wall_thick, hematoma_size, cbc_plt, treatment_freq,
                       response_status>>

\* the widgets below are drawn only in a run that got past app.py:80
SetTargetVol ==
    /\ outcome # "aborted"
    /\ \E v \in TargetVolValues \ {target_vol} :
        /\ Rerun(grade, bladder_vol, glue_type, target_plt, v, glue_params)
        /\ UNCHANGED <<wall_thick, hematoma_size, cbc_plt, treatment_freq,
                       response_status>>

SetGlueParam(k, values) ==
    /\ outcome # "aborted"
    /\ k \in DOMAIN glue_params
    /\ \E v \in values \ {glue_params[k]} :
        /\ Rerun(grade, bladder_vol, glue_type, target_plt, target_vol,
                 [glue_params EXCEPT ![k] = v])
        /\ UNCHANGED <<wall_thick, hematoma_size, cbc_plt, treatment_freq,
                       response_status>>

SetCryoVol == SetGlueParam("cryo_vol", CryoVolValues)
SetCalciumRatio == SetGlueParam("calcium_ratio", CalciumRatios)
SetIncubationTime == SetGlueParam("incubation_time", IncubationValues)
SetActivationTemp == SetGlueParam("activation_temp", ActivationTempValues)

\* the button: a run of the script with the widgets as they are
Generate ==
    /\ outcome # "aborted"
    /\ outcome' = GenerateProtocol(Input).outcome
    /\ rec' = GenerateProtocol(Input).rec
    /\ UNCHANGED <<inputs, prev>>

\* an observer keeps one rendered protocol, with the input it was made from
Remember ==
    /\ outcome = "ok"
    /\ prev # << [in |-> Input, out |-> rec] >>
    /\ prev' = << [in |-> Input, out |-> rec] >>
    /\ UNCHANGED <<inputs, outcome, rec>>

Next ==
    \/ SetGrade
    \/ SetBladderVol
    \/ SetWallThick
    \/ SetHematoma
    \/ SetCbc
    \/ SetTreatmentFreq
    \/ SetResponse
    \/ SetTargetPlt
    \/ SetGlueType
    \/ SetTargetVol
    \/ SetCryoVol
    \/ SetCalciumRatio
    \/ SetIncubationTime
    \/ SetActivationTemp
    \/ Generate
    \/ Remember

Spec == Init /\ [][Next]_vars

\* the widgets the session count reads
NextSession ==
    \/ SetGrade
    \/ SetHematoma
    \/ SetWallThick
    \/ SetResponse
    \/ Generate
    \/ Remember

SpecSession == Init /\ [][NextSession]_vars

\* the widgets the blood volumes, the dose and the handler's lookups read
NextBlood ==
    \/ SetGrade
    \/ SetBladderVol
    \/ SetCbc
    \/ SetTargetPlt
    \/ SetTargetVol
    \/ SetGlueType
    \/ Generate

SpecBlood == Init /\ [][NextBlood]_vars

\* the widgets the preparation steps read
NextGlue ==
    \/ SetGlueType
    \/ SetCryoVol
    \/ SetCalciumRatio
    \/ SetIncubationTime
    \/ SetActivationTemp
    \/ Generate

SpecGlue == Init /\ [][NextGlue]_vars

\* the frequency label beside the widgets that select the branches
NextLabel ==
    \/ SetGrade
    \/ SetTreatmentFreq
    \/ SetResponse
    \/ SetGlueType
    \/ Generate
    \/ Remember

SpecLabel == Init /\ [][NextLabel]_vars

\* the handler's code run on a platelet count the form's min_value=50 would
\* have refused: a caller that takes the calculation without the form
InitDirect ==
    /\ grade = "Grade 1"
    /\ bladder_vol = 150
    /\ wall_thick = 50
    /\ hematoma_size = 0
    /\ cbc_plt \in DirectCbcValues
    /\ treatment_freq = "Biweekly"
    /\ response_status = "Naive"
    /\ target_plt = TargetPltDefault("Grade 1")
    /\ glue_type = "Standard PRP"
    /\ target_vol = TargetVolDefault(150)
    /\ glue_params = EmptyDict
    /\ outcome = "idle"
    /\ rec = NoRec
    /\ prev = << >>

NextDirect ==
    \/ SetGrade
    \/ SetBladderVol
    \/ SetTargetPlt
    \/ SetTargetVol
    \/ Generate

SpecDirect == InitDirect /\ [][NextDirect]_vars

(***************************************************************************)
(* Claims                                                                  *)
(***************************************************************************)
Generated == outcome \in {"ok", "error"}

C2_BloodRequirements ==
    (outcome = "ok" /\ cbc_plt > 0) =>
        LET w == rec.required_blood_ml
            a == rec.apheresis_vol_ml
            p == target_vol * target_plt
        IN /\ w.d > 0 /\ a.d > 0
           /\ w.n >= 20 * w.d
           /\ a.n >= 50 * a.d
           /\ IF 2 * p > 20 * cbc_plt
              THEN w.n * cbc_plt = 2 * p * w.d
              ELSE w = [n |-> 20, d |-> 1]
           /\ IF 2 * p > 50 * 5 * cbc_plt
              THEN a.n * 5 * cbc_plt = 2 * p * a.d
              ELSE a = [n |-> 50, d |-> 1]
           /\ (target_vol = 30 /\ target_plt = 1000 /\ cbc_plt = 200) =>
                  (w = [n |-> 300, d |-> 1] /\ a = [n |-> 60, d |-> 1])

\* a protocol generated for a platelet count so high that both volumes clamp
C2_Witness ==
    /\ outcome = "ok"
    /\ cbc_plt = MaxCbc /\ target_vol = 10 /\ target_plt = 1000
    /\ rec.required_blood_ml = [n |-> 20, d |-> 1]
    /\ rec.apheresis_vol_ml = [n |-> 50, d |-> 1]

\* C3: the session count is the grade's base (2, 3, 4, 5) plus 1 for a
\* hematoma over 2.0 cm, plus 1 more over 4.0 cm, plus 1 for a wall over
\* 6.0 mm, plus 1 for a partial response or 2 for a recurrent one; exactly
\* 2.0, 4.0 and 6.0 add nothing; (1, 0, 5.0, naive) = 2 and
\* (4, 5.0, 7.0, recurrent) = 10.
C3_SessionCount ==
    outcome = "ok" =>
        /\ rec.sessions =
              (CASE grade = "Grade 1" -> 2 [] grade = "Grade 2" -> 3
                 [] grade = "Grade 3" -> 4 [] grade = "Grade 4" -> 5)
              + (IF hematoma_size > 20 THEN 1 ELSE 0)
              + (IF hematoma_size > 40 THEN 1 ELSE 0)
              + (IF wall_thick > 60 THEN 1 ELSE 0)
              + (CASE response_status = "Naive" -> 0
                   [] response_status = "Partial Response" -> 1
                   [] response_status = "Recurrent" -> 2)
        /\ (grade = "Grade 1" /\ hematoma_size = 0 /\ wall_thick = 50
              /\ response_status = "Naive") => rec.sessions = 2
        /\ (grade = "Grade 4" /\ hematoma_size = 50 /\ wall_thick = 70
              /\ response_status = "Recurrent") => rec.sessions = 10
        /\ (grade = "Grade 2" /\ hematoma_size \in {20, 40} /\ wall_thick = 60
              /\ response_status = "Naive")
             => rec.sessions = 3 + (IF hematoma_size = 40 THEN 1 ELSE 0)

\* a protocol generated with every threshold value exactly met
C3_Witness ==
    /\ outcome = "ok"
    /\ grade = "Grade 2" /\ hematoma_size = 40 /\ wall_thick = 60
    /\ response_status = "Naive"
    /\ rec.sessions = 4

GradeRank(g) ==
    CASE g = "Grade 1" -> 1 [] g = "Grade 2" -> 2
      [] g = "Grade 3" -> 3 [] g = "Grade 4" -> 4

ResponseRank(r) ==
    CASE r = "Naive" -> 0 [] r = "Partial Response" -> 1 [] r = "Recurrent" -> 2

\* the arguments of the session count in which b is above a
RaisedArguments(a, b) ==
    {k \in {"grade", "hematoma_size", "wall_thick", "response_status"} :
        CASE k = "grade" -> GradeRank(a.grade) < GradeRank(b.grade)
          [] k = "hematoma_size" -> a.hematoma_size < b.hematoma_size
          [] k = "wall_thick" -> a.wall_thick < b.wall_thick
          [] k = "response_status" ->
                ResponseRank(a.response_status) < ResponseRank(b.response_status)}

\* b is a with exactly one argument of the session count raised
OneArgumentRaised(a, b) ==
    /\ Cardinality(RaisedArguments(a, b)) = 1
    /\ RaisedArguments(b, a) = {}

\* C4: the session count is monotonically non-decreasing in each argument:
\* of two generated protocols whose inputs differ only by a higher grade, a
\* larger hematoma, a thicker wall or a worse response, the one with the
\* raised argument has at least as many sessions.
C4_SessionsMonotone ==
    (outcome = "ok" /\ prev # << >>) =>
        /\ OneArgumentRaised(prev[1].in, Input) => prev[1].out.sessions <= rec.sessions
        /\ OneArgumentRaised(Input, prev[1].in) => rec.sessions <= prev[1].out.sessions

\* a protocol for a partial response kept, and one generated for the same
\* patient with a recurrent response
C4_Witness ==
    /\ outcome = "ok" /\ prev # << >>
    /\ OneArgumentRaised(prev[1].in, Input)
    /\ prev[1].in.response_status = "Partial Response"
    /\ response_status = "Recurrent"
    /\ rec.sessions = prev[1].out.sessions + 1

StepCount(gt) ==
    CASE gt = "Standard PRP" -> 0
      [] gt = "Fibrin Glue (Cryo-based)" -> 3
      [] gt = "PRF Glue (Combined)" -> 4
      [] gt = "PRF Gel" -> 4

\* the fixed text that opens each step, after its number
StepHeads(gt) ==
    CASE gt = "Standard PRP" -> << >>
      [] gt = "Fibrin Glue (Cryo-based)" ->
            <<". Prepare ", ". Add calcium gluconate at ", ". Incubate at ">>
      [] gt = "PRF Glue (Combined)" ->
            <<". Prepare both platelet concentrate and cryoprecipitate",
              ". Mix components at 2:1 ratio (PRP:Cryo)",
              ". Add calcium gluconate at ", ". Incubate at ">>
      [] gt = "PRF Gel" ->
            <<". Prepare high-concentration PRP (>=2000x10^3/uL)",
              ". Add calcium gluconate at ", ". Activate at ",
              ". Centrifuge at 200g for 5min">>

\* C5: the preparation steps depend on the preparation alone in number and
\* order, whatever the parameters: none for Standard PRP, 3 for Fibrin Glue,
\* 4 for PRF Glue and 4 for PRF Gel, numbered 1..n, each opening with its
\* fixed text; PRF Gel ends with "Centrifuge at 200g for 5min" and Fibrin
\* Glue incubates "for 30min" whatever the parameters hold.
C5_AdjunctDispatch ==
    outcome = "ok" =>
        /\ glue_type \in GlueTypes
        /\ Len(rec.steps) = StepCount(glue_type)
        /\ \A i \in 1..Len(rec.steps) :
              /\ rec.steps[i][1] = ToString(i)
              /\ rec.steps[i][2] = StepHeads(glue_type)[i]
        /\ glue_type = "PRF Gel" =>
              rec.steps[4] = <<"4", ". Centrifuge at 200g for 5min">>
        /\ glue_type = "Fibrin Glue (Cryo-based)" =>
              /\ Len(rec.steps[3]) = 4
              /\ rec.steps[3][4] = "C for 30min"

\* a Fibrin Glue protocol generated with parameters other than the defaults
C5_Witness ==
    /\ outcome = "ok"
    /\ glue_type = "Fibrin Glue (Cryo-based)"
    /\ glue_params.cryo_vol = MaxCryoVol
    /\ glue_params.calcium_ratio = "1:20"
    /\ Len(rec.steps) = 3

\* C6: Fibrin Glue with every parameter left at the form's default yields
\* 3 steps that name 30 ml, ratio 1:5 and 37 C (for the fixed 30 minutes).
C6_FibrinDefaults ==
    (/\ outcome = "ok"
     /\ glue_type = "Fibrin Glue (Cryo-based)"
     /\ glue_params = CollectGlueParams("Fibrin Glue (Cryo-based)", "Standard PRP",
                                        EmptyDict))
    => rec.steps =
         << <<"1", ". Prepare ", "30", "ml cryoprecipitate">>,
            <<"2", ". Add calcium gluconate at ", "1:5", " ratio">>,
            <<"3", ". Incubate at ", "37", "C for 30min">> >>

\* C7: on validated input the handler never takes its except branch and
\* renders a full recommendation: a session count, both blood volumes, the
\* dose, the follow-up, and the steps of the preparation.
C7_Total ==
    /\ outcome # "error"
    /\ outcome = "ok" =>
          /\ grade \in Grades /\ cbc_plt >= MinCbc
          /\ target_vol >= MinTargetVol /\ target_plt >= MinTargetPlt
          /\ rec.sessions >= 1
          /\ rec.required_blood_ml.n > 0 /\ rec.required_blood_ml.d > 0
          /\ rec.apheresis_vol_ml.n > 0 /\ rec.apheresis_vol_ml.d > 0
          /\ rec.dose = target_vol * target_plt
          /\ rec.followup >= 1
          /\ Len(rec.steps) = StepCount(glue_type)

\* a protocol generated for the last grade at the lowest accepted values
C7_Witness ==
    /\ outcome = "ok"
    /\ grade = "Grade 4" /\ cbc_plt = MinCbc
    /\ target_vol = MinTargetVol /\ target_plt = MinTargetPlt
    /\ glue_type = "PRF Gel"

SameBut(a, b, field) == [a EXCEPT ![field] = b[field]] = b

Computed(r) == [r EXCEPT !.interval = ""]

\* C8: the treatment frequency has no effect on the calculation: two
\* protocols generated from inputs that differ only in treatment_freq have
\* the same session count, blood volumes, dose, steps and follow-up.
C8_FrequencyPassThrough ==
    (outcome = "ok" /\ prev # << >> /\ SameBut(prev[1].in, Input, "treatment_freq"))
    => Computed(prev[1].out) = Computed(rec)

\* two protocols generated for a recurrent Grade 3 case, weekly and monthly
C8_Witness ==
    /\ outcome = "ok" /\ prev # << >>
    /\ SameBut(prev[1].in, Input, "treatment_freq")
    /\ prev[1].in.treatment_freq = "Weekly" /\ treatment_freq = "Monthly"
    /\ grade = "Grade 3" /\ response_status = "Recurrent"
    /\ prev[1].out.interval # rec.interval

C10_FollowUpWithinCourse ==
    outcome = "ok" =>
        /\ rec.followup >= 2 /\ rec.followup >= rec.sessions \div 2
        /\ rec.followup \in {2, rec.sessions \div 2}
        /\ rec.followup \in Nat \ {0}
        /\ rec.followup <= rec.sessions
        /\ rec.sessions >= 2 /\ rec.sessions <= 10

\* the shortest course: the follow-up falls on its last session
C10_Witness ==
    /\ outcome = "ok"
    /\ rec.sessions = 2
    /\ rec.followup = 2

\* C11: for every bladder volume >= 0 the suggested default of the target
\* instillation volume, min(30, 15% of the bladder volume) or 30 for a
\* bladder volume of 0, is at least the widget's minimum of 10 ml, so the
\* widget is drawn and the volume the handler reads is at least 10 ml.
C11_DefaultWithinRange ==
    /\ bladder_vol >= 0
    /\ TargetVolDefault(bladder_vol) >= MinTargetVol
    /\ outcome # "aborted"
    /\ target_vol >= MinTargetVol

====
